---- MODULE Spec2Model ----
(***************************************************************************)
(* Model of the chatbot demo application: the App component's state        *)
(* machine (src/src/App.tsx) and the service functions it awaits           *)
(* (src/src/services/linkedin.ts).                                         *)
(*                                                                         *)
(* React state is one variable per useState cell.  Every `await` of an     *)
(* external call splits a handler into the part that runs when the user    *)
(* acts and the part that runs when the call settles; the invocation that  *)
(* is suspended in between is a record in `ingests` or `chats`, holding    *)
(* the values its closure captured.  Browser dialogs (confirm, prompt)     *)
(* block the event loop, so their answers are inputs of the step in which  *)
(* they are shown.                                                         *)
(***************************************************************************)
EXTENDS Integers, Sequences, FiniteSets, TLC

VARIABLES
    step,             \* useState 'landing' | 'input' | 'chat' | 'conversion'
    knowledgeSource,  \* useState: selected source kind, or Null
    inputValue,       \* useState: content of the text field
    pdfFile,          \* useState: selected file, or Null
    messages,         \* useState: Message[]
    isProcessing,     \* useState: boolean
    error,            \* useState: string | null
    knowledgeBase,    \* useState: string
    apiKey,           \* import.meta.env.VITE_OPENAI_API_KEY is set
    ingests,          \* suspended handleSubmitKnowledge invocations
    chats,            \* suspended handleSendMessage invocations
    timers,           \* pending setTimeout callbacks (by scheduling session)
    session,          \* number of chat sessions created so far
    rejected,         \* handleSendMessage refused a submission in this session
    calls,            \* chatWithGPT invocations of this session
    blanks,           \* a handler was called with a blank submission
    call              \* the service call under study (one of the function specifications)

vars == <<step, knowledgeSource, inputValue, pdfFile, messages, isProcessing,
          error, knowledgeBase, apiKey, ingests, chats, timers, session, rejected,
          calls, blanks, call>>

\* the component's state, without the service call under study
appVars == <<step, knowledgeSource, inputValue, pdfFile, messages, isProcessing,
             error, knowledgeBase, apiKey, ingests, chats, timers, session,
             rejected, calls, blanks>>

Null == "null"

----------------------------------------------------------------------------
(* Bounds of the model.                                                    *)

\* chat sessions (successful ingestions) explored in one run
MaxSessions == 2

\* how many of the source kinds the user gets to select
NumSources == 6

----------------------------------------------------------------------------
(* Strings.  A string is kept as the length of its leading whitespace, of  *)
(* its trimmed text and of its trailing whitespace; whitespace inside the  *)
(* trimmed text is taken to be single spaces.                              *)

Str(l, c, t) == [lead |-> l, core |-> c, trail |-> t]

EmptyStr == Str(0, 0, 0)

\* s.length
Length(s) == s.lead + s.core + s.trail

\* s.trim()
Trim(s) == IF s.core = 0 THEN EmptyStr ELSE Str(0, s.core, 0)

\* !s  (the empty string is falsy)
Falsy(s) == Length(s) = 0

Min(a, b) == IF a <= b THEN a ELSE b

\* s.replace(/\s+/g, ' ')
CollapseWhitespace(s) ==
    IF s.core = 0 THEN Str(Min(s.lead + s.trail, 1), 0, 0)
    ELSE Str(Min(s.lead, 1), s.core, Min(s.trail, 1))

\* s.substring(0, n)
Substring(s, n) ==
    IF n >= Length(s) THEN s
    ELSE IF n <= s.lead THEN Str(n, 0, 0)
    ELSE IF n <= s.lead + s.core THEN Str(s.lead, n - s.lead, 0)
    ELSE Str(s.lead, s.core, n - s.lead - s.core)

----------------------------------------------------------------------------
(* Program constants.                                                      *)

\* the cap on user messages of a session
MaxUserMessages == 3

\* processKnowledgeBase: content up to this length is used without the model
maxDirectLength == 50000

\* processKnowledgeBase: what is sent to the model of a link / of another source
maxContentLengthLink == 150000
maxContentLengthOther == 100000

\* handleSubmitKnowledge: pasted website content must be longer than this
MinPastedLength == 10

\* scrapeWebsite: the shortest text it returns
MinScrapedLength == 50

----------------------------------------------------------------------------
(* Inputs.                                                                 *)

SourceKinds == <<"link", "pdf", "linkedin", "instagram", "facebook", "tiktok">>

\* the source cards the user clicks
Selectable == {SourceKinds[i] : i \in 1..Min(NumSources, Len(SourceKinds))}

SocialKinds == {"instagram", "linkedin", "facebook", "tiktok"}

\* what the user types into the text field: nothing, blanks, a value
InputValues == {EmptyStr, Str(1, 0, 0), Str(0, MinPastedLength + 1, 0)}

\* what the user types into the chat form
ChatTexts == {Str(0, 1, 0)}

NoFile == [ext |-> "", type |-> ""]

WordTypes == {"application/msword",
              "application/vnd.openxmlformats-officedocument.wordprocessingml.document"}

validTypes == {"application/pdf"} \cup WordTypes

validExtensions == {".pdf", ".doc", ".docx"}

\* the files the user picks in the file dialog
Files == {[ext |-> ".pdf", type |-> "application/pdf"],
          [ext |-> ".docx", type |-> ""],
          [ext |-> ".txt", type |-> "text/plain"]}

\* file.name of a picked file: never blank
FileName(f) == Str(0, MinPastedLength + 1, 0)

\* what prompt() returns: null when cancelled, else the text typed
PromptAnswers ==
    {[ok |-> FALSE, text |-> EmptyStr]} \cup
    {[ok |-> TRUE, text |-> s] :
        s \in {EmptyStr, Str(1, 0, 0), Str(0, MinPastedLength, 0),
               Str(1, MinPastedLength, 1), Str(1, MinPastedLength + 1, 1)}}

\* the texts the language model returns
ModelOutputs == {EmptyStr, Str(0, MinScrapedLength, 0)}

----------------------------------------------------------------------------
(* The session: messages and the turn count.                               *)

\* a Message; turn is the user turn it belongs to (the welcome message: 0)
Message(sender, text, turn) == [sender |-> sender, text |-> text, turn |-> turn]

WelcomeMessage == Message("bot", "welcome", 0)

\* messages.filter(m => m.sender === 'user').length
UserCount(msgs) == Cardinality({i \in 1..Len(msgs) : msgs[i].sender = "user"})

\* the chat input surface shows the limit notice instead of the form
isLimitReached == UserCount(messages) >= MaxUserMessages

----------------------------------------------------------------------------
(* Service functions.                                                      *)

\* what one scrapeWebsite call settles with: an error, or trimmed text of at
\* least MinScrapedLength characters
ScrapeResults ==
    {[ok |-> FALSE, text |-> EmptyStr]} \cup
    {[ok |-> TRUE, text |-> Str(0, n, 0)] :
        n \in {MinScrapedLength, maxDirectLength, maxDirectLength + 1}}

\* SocialScrapeResults with a scrape that may return profile text
SocialScrapeResults_MayReturn ==
    {[ok |-> FALSE, text |-> EmptyStr],
     [ok |-> TRUE, text |-> Str(0, MinScrapedLength, 0)]}

\* what scrapeLinkedIn, scrapeInstagram, scrapeFacebook and scrapeTikTok
\* settle with: each throws, always, before any request
SocialScrapeResults == {[ok |-> FALSE, text |-> EmptyStr]}

\* what one processPDF call settles with: an error, or trimmed non-empty text
DocumentResults ==
    {[ok |-> FALSE, text |-> EmptyStr]} \cup
    {[ok |-> TRUE, text |-> Str(0, n, 0)] : n \in {1, maxDirectLength + 1}}

\* what the condenser's model call settles with: an error, or the output
\* (response.choices[0]?.message?.content || '')
CondenseResults ==
    {[ok |-> FALSE, text |-> EmptyStr]} \cup
    {[ok |-> TRUE, text |-> s] : s \in ModelOutputs}

\* UsesDirectPath without the test of the source kind
UsesDirectPath_AnySource(content, sourceType) ==
    Length(content) <= maxDirectLength

\* processKnowledgeBase takes the path without a model call
UsesDirectPath(content, sourceType) ==
    Length(content) <= maxDirectLength /\ sourceType \in {"pdf", "link"}

\* processKnowledgeBase, direct path: the cleaned content
cleanedContent(content) == Trim(CollapseWhitespace(content))

\* contentToProcess with the cap of the other sources used for a link too
contentToProcess_OneCap(content, sourceType) ==
    Substring(content, maxContentLengthOther)

\* processKnowledgeBase, model path: what is sent to the model
contentToProcess(content, sourceType) ==
    Substring(content,
              IF sourceType = "link" THEN maxContentLengthLink
                                     ELSE maxContentLengthOther)

----------------------------------------------------------------------------
(* Error texts.                                                            *)

ErrFileType == "Please upload a PDF (.pdf) or Google Doc (.doc, .docx) file"
ErrNoContent == "No content could be extracted. Please try again."
ErrNoPaste == "No content provided or content is too short."
ErrNoManual == "No content provided"
ErrScrape == "Website scraping failed"
ErrDocument == "Failed to process file"
ErrCondense == "Failed to process knowledge base"
ErrChat == "Failed to get response"

ApologyText == "I apologize, but I'm having trouble processing your request right now. Please try again."

----------------------------------------------------------------------------
(* scrapeWebsite: one call, from its start to the value or error it        *)
(* settles with.  A page is known by what the code reads of it: its        *)
(* length, whether it holds one of '<html', '<body', '<!DOCTYPE', whether  *)
(* DOMParser reports a parsererror, and the lengths of the text that the   *)
(* structural walk and the tag-stripping regex extract from it.            *)

NumRelays == 3
MinBackendLength == 100
MinRelayLength == 100
MinStructuralLength == 50
LowRatioPercent == 5
MinNormalizedLength == 500
MinModelLength == 500
maxModelMarkup == 100000

Markup(len, anchors, parseError, structural, regex) ==
    [len |-> len, anchors |-> anchors, parseError |-> parseError,
     structural |-> structural, regex |-> regex]

\* the empty string
NoMarkup == Markup(0, FALSE, FALSE, 0, 0)

\* bodies a strategy may come back with
Pages ==
    { Markup(60, FALSE, FALSE, 60, 60),           \* short JSON error body
      Markup(300, FALSE, FALSE, 300, 300),        \* JSON error body
      Markup(100, TRUE, FALSE, 40, 60),           \* 100 characters of markup
      Markup(2000, TRUE, FALSE, 0, 30),           \* shell of a rendered page
      Markup(2000, TRUE, FALSE, 499, 520),
      Markup(2000, TRUE, FALSE, 500, 520),
      Markup(2000, TRUE, TRUE, 0, 499),
      Markup(100000, TRUE, FALSE, 4994, 6000),
      Markup(100000, TRUE, FALSE, 4996, 6000),
      Markup(100000, TRUE, FALSE, 5000, 6000),
      Markup(200000, TRUE, FALSE, 4000, 6000) }   \* 2% of a long page

\* fetch(zyteApiUrl) and response.json(): rejected, answered with an error
\* status, or answered with data whose browserHtml is the body
BackendResponses ==
    {[kind |-> k, body |-> NoMarkup] : k \in {"network", "http", "ok"}} \cup
    {[kind |-> "ok", body |-> b] : b \in Pages}

\* fetch(proxyUrl) and response.text()
RelayResponses ==
    {[kind |-> k, body |-> NoMarkup] : k \in {"network", "http", "ok"}} \cup
    {[kind |-> "ok", body |-> b] : b \in Pages}

\* openai.chat.completions.create of extractContentWithGPT: rejected, or the
\* content of the first choice
ModelExtractions ==
    {[ok |-> FALSE, text |-> EmptyStr]} \cup
    {[ok |-> TRUE, text |-> t] :
        t \in {EmptyStr, Str(1, MinScrapedLength - 1, 0), Str(0, 60, 0),
               Str(1, MinModelLength - 1, 1), Str(0, MinModelLength, 0)}}

extractTextWithRegex(html) == Str(0, html.regex, 0)

extractTextFromHTML(html) ==
    IF html.len = 0 THEN EmptyStr
    ELSE IF html.parseError THEN extractTextWithRegex(html)
    ELSE LET text == Str(0, html.structural, 0)
             regexText == extractTextWithRegex(html)
         IN IF Length(text) < MinStructuralLength
               /\ ~Falsy(regexText) /\ Length(regexText) > Length(text)
            THEN regexText
            ELSE text

\* parseFloat((textLength / htmlLength * 100).toFixed(2)), in hundredths of a
\* percent: toFixed rounds to the nearest hundredth, the larger one on a tie
extractionRatioNum(textLength, htmlLength) ==
    (2 * 10000 * textLength + htmlLength) \div (2 * htmlLength)

\* the condition that sends the markup to the model
NeedsModel(textContent, html) ==
    \/ extractionRatioNum(Length(textContent), html.len) < 100 * LowRatioPercent
    \/ Falsy(textContent)
    \/ Length(Trim(textContent)) < MinNormalizedLength

NoError == [by |-> -1, reason |-> "none"]
NoExtraction == [status |-> "none", text |-> EmptyStr]
NoResult == [status |-> "pending", text |-> EmptyStr, message |-> "", cause |-> NoError]

ErrAllFailed == "All CORS proxy services failed."
ErrNoText == "No meaningful text content could be extracted from the website."
ErrConfig == "OpenAI API key is not set."

\* no call yet; zyteKey: import.meta.env.VITE_ZYTE_API_KEY is set
FetchIdle(zyteKey) ==
    [pc |-> "idle", zyteKey |-> zyteKey, i |-> 0, html |-> NoMarkup,
     lastError |-> NoError, attempts |-> <<>>, normalized |-> EmptyStr,
     textContent |-> EmptyStr, invoked |-> FALSE, sent |-> 0, requests |-> 0,
     extracted |-> NoExtraction, result |-> NoResult]

Returns(f, text) ==
    [f EXCEPT !.pc = "done",
              !.result = [status |-> "ok", text |-> text, message |-> "",
                          cause |-> NoError]]

Throws(f, message, cause) ==
    [f EXCEPT !.pc = "done",
              !.result = [status |-> "error", text |-> EmptyStr,
                          message |-> message, cause |-> cause]]

\* no strategy left html set
AllFailed(f) == Throws(f, ErrAllFailed, f.lastError)

\* after the model attempt did not return: "use what we have", or give up
ModelFallback(f) ==
    IF ~Falsy(f.textContent) /\ Length(Trim(f.textContent)) >= MinScrapedLength
    THEN Returns(f, f.textContent)
    ELSE Throws(f, ErrNoText, NoError)

\* AfterFetch with the whole markup sent to the model
AfterFetch_SendsWhole(f) ==
    LET textContent == extractTextFromHTML(f.html)
        g == [f EXCEPT !.normalized = textContent, !.textContent = textContent]
    IN IF NeedsModel(textContent, f.html)
       THEN IF apiKey
            THEN [g EXCEPT !.pc = "model", !.invoked = TRUE,
                           !.sent = f.html.len, !.requests = @ + 1]
            ELSE ModelFallback([g EXCEPT !.invoked = TRUE,
                                         !.extracted = [status |-> "failed",
                                                        text |-> EmptyStr]])
       ELSE Returns(g, textContent)

\* from a non-empty html to the await of the model call, or to the end;
\* sent: the length of limitedHtml, requests: calls of chat.completions.create
AfterFetch(f) ==
    LET textContent == extractTextFromHTML(f.html)
        g == [f EXCEPT !.normalized = textContent, !.textContent = textContent]
    IN IF NeedsModel(textContent, f.html)
       THEN IF apiKey
            THEN [g EXCEPT !.pc = "model", !.invoked = TRUE,
                           !.sent = Min(f.html.len, maxModelMarkup),
                           !.requests = @ + 1]
            ELSE ModelFallback([g EXCEPT !.invoked = TRUE,
                                         !.extracted = [status |-> "failed",
                                                        text |-> EmptyStr]])
       ELSE Returns(g, textContent)

\* ScrapeStarts with the backend called whether or not its credential is set
ScrapeStarts_AlwaysBackend ==
    /\ call.pc = "idle"
    /\ call' = [call EXCEPT !.pc = "backend"]
    /\ UNCHANGED appVars

\* the call starts: the backend when its credential is set, else relay 1
ScrapeStarts ==
    /\ call.pc = "idle"
    /\ call' = IF call.zyteKey THEN [call EXCEPT !.pc = "backend"]
                ELSE [call EXCEPT !.pc = "relay", !.i = 1]
    /\ UNCHANGED appVars

\* how scrapeWithZyte judges an answer
BackendOutcome(r) ==
    IF r.kind # "ok" THEN r.kind
    ELSE IF r.body.len = 0 THEN "nobody"
    ELSE IF r.body.len < MinBackendLength THEN "short"
    ELSE "ok"

\* RelayOutcome with a body of MinRelayLength characters accepted
RelayOutcome_AtLeast(r) ==
    IF r.kind # "ok" THEN r.kind
    ELSE IF ~(r.body.len >= MinRelayLength) THEN "short"
    ELSE IF ~r.body.anchors THEN "nomarkup"
    ELSE "ok"

\* how the relay loop judges an answer
RelayOutcome(r) ==
    IF r.kind # "ok" THEN r.kind
    ELSE IF ~(r.body.len > MinRelayLength) THEN "short"
    ELSE IF ~r.body.anchors THEN "nomarkup"
    ELSE "ok"

Attempt(strategy, outcome, r) ==
    [strategy |-> strategy, outcome |-> outcome, kind |-> r.kind,
     body |-> r.body]

\* BackendSettles with the relays tried whatever the backend returned
BackendSettles_ThenRelays ==
    /\ call.pc = "backend"
    /\ \E r \in BackendResponses :
         LET outcome == BackendOutcome(r)
             f == [call EXCEPT
                     !.attempts = Append(@, Attempt(0, outcome, r)),
                     !.html = IF outcome = "ok" THEN r.body ELSE @,
                     !.lastError = IF outcome # "ok"
                                   THEN [by |-> 0, reason |-> outcome] ELSE @]
         IN call' = [f EXCEPT !.pc = "relay", !.i = 1]
    /\ UNCHANGED appVars

\* scrapeWithZyte settles; every failure of it is thrown, and caught into
\* lastError
BackendSettles ==
    /\ call.pc = "backend"
    /\ \E r \in BackendResponses :
         LET outcome == BackendOutcome(r)
             f == [call EXCEPT
                     !.attempts = Append(@, Attempt(0, outcome, r)),
                     !.html = IF outcome = "ok" THEN r.body ELSE @,
                     !.lastError = IF outcome # "ok"
                                   THEN [by |-> 0, reason |-> outcome] ELSE @]
         IN call' = IF outcome = "ok" THEN AfterFetch(f)
                     ELSE [f EXCEPT !.pc = "relay", !.i = 1]
    /\ UNCHANGED appVars

\* relay i settles; only what is thrown (no answer, error status) reaches
\* lastError, a refused body is logged
RelaySettles ==
    /\ call.pc = "relay"
    /\ \E r \in RelayResponses :
         LET outcome == RelayOutcome(r)
             f == [call EXCEPT
                     !.attempts = Append(@, Attempt(call.i, outcome, r)),
                     !.html = IF outcome = "ok" THEN r.body ELSE @,
                     !.lastError = IF outcome \in {"network", "http"}
                                   THEN [by |-> call.i, reason |-> outcome]
                                   ELSE @]
         IN call' = IF outcome = "ok" THEN AfterFetch(f)
                     ELSE IF call.i < NumRelays THEN [f EXCEPT !.i = @ + 1]
                     ELSE AllFailed(f)
    /\ UNCHANGED appVars

\* extractContentWithGPT settles
ModelSettles ==
    /\ call.pc = "model"
    /\ \E r \in ModelExtractions :
         call' =
           IF r.ok
           THEN LET text == Trim(r.text)
                    f == [call EXCEPT !.textContent = text,
                                       !.extracted = [status |-> "ok",
                                                      text |-> text]]
                IN IF ~Falsy(text) /\ Length(Trim(text)) >= MinModelLength
                   THEN Returns(f, text)
                   ELSE ModelFallback(f)
           ELSE ModelFallback([call EXCEPT !.extracted =
                                 [status |-> "failed", text |-> EmptyStr]])
    /\ UNCHANGED appVars

----------------------------------------------------------------------------
(* extractTextFromHTML: one call.  blank: the markup is made of white      *)
(* space only; domThrows: a DOM operation of the structural walk raises.   *)

\* markups handed to the normalizer, around MinStructuralLength
NormalizerMarkups ==
    {Markup(2000, TRUE, e, st, re) :
        e \in BOOLEAN,
        st \in {0, 40, MinStructuralLength - 1, MinStructuralLength, 60},
        re \in {0, 40, MinStructuralLength, 61}}

NormalizerInputs ==
    {[html |-> NoMarkup, blank |-> FALSE],
     [html |-> Markup(3, FALSE, FALSE, 0, 0), blank |-> TRUE]}
    \cup {[html |-> h, blank |-> FALSE] : h \in NormalizerMarkups}

\* no call yet
NormalizeIdle(in, domThrows) ==
    [pc |-> "idle", html |-> in.html, blank |-> in.blank,
     domThrows |-> domThrows,
     result |-> [status |-> "pending", text |-> EmptyStr, via |-> "none"]]

NormalizeReturns(c, text, via) ==
    [c EXCEPT !.pc = "done",
              !.result = [status |-> "ok", text |-> text, via |-> via]]

\* NormalizerRuns with the regex text preferred when it is as long as the
\* structural text
NormalizerRuns_PrefersRegexOnTie ==
    /\ call.pc = "idle"
    /\ LET html == call.html
           text == Str(0, html.structural, 0)
           regexText == extractTextWithRegex(html)
       IN call' =
            IF html.len = 0 \/ call.blank
            THEN NormalizeReturns(call, EmptyStr, "empty")
            ELSE IF html.parseError \/ call.domThrows
            THEN NormalizeReturns(call, regexText, "regex")
            ELSE IF (Falsy(text) \/ Length(text) < MinStructuralLength)
                    /\ ~Falsy(regexText) /\ Length(regexText) >= Length(text)
            THEN NormalizeReturns(call, regexText, "regex")
            ELSE NormalizeReturns(call, text, "structural")
    /\ UNCHANGED appVars

\* the call, to its return; via: the path the returned text came from
NormalizerRuns ==
    /\ call.pc = "idle"
    /\ LET html == call.html
           text == Str(0, html.structural, 0)
           regexText == extractTextWithRegex(html)
       IN call' =
            IF html.len = 0 \/ call.blank
            THEN NormalizeReturns(call, EmptyStr, "empty")
            ELSE IF html.parseError \/ call.domThrows
            THEN NormalizeReturns(call, regexText, "regex")
            ELSE IF (Falsy(text) \/ Length(text) < MinStructuralLength)
                    /\ ~Falsy(regexText) /\ Length(regexText) > Length(text)
            THEN NormalizeReturns(call, regexText, "regex")
            ELSE NormalizeReturns(call, text, "structural")
    /\ UNCHANGED appVars

----------------------------------------------------------------------------
(* processKnowledgeBase: one call, from its arguments to the value or      *)
(* error it settles with.                                                  *)

\* contents handed to the condenser, around its two thresholds
CondenserContents ==
    {Str(0, n, 0) : n \in {1, maxDirectLength, maxDirectLength + 1,
                           maxContentLengthOther, maxContentLengthOther + 1,
                           maxContentLengthLink, maxContentLengthLink + 1}}
    \cup {Str(1, maxDirectLength - 2, 1), Str(1, maxDirectLength, 0), Str(2, 0, 0)}

ErrModel == "model call failed"

\* no call yet
CondenseIdle(content, sourceType) ==
    [pc |-> "idle", content |-> content, sourceType |-> sourceType,
     invoked |-> FALSE, sent |-> EmptyStr,
     result |-> [status |-> "pending", text |-> EmptyStr, message |-> ""]]

CondenseReturns(c, text) ==
    [c EXCEPT !.pc = "done",
              !.result = [status |-> "ok", text |-> text, message |-> ""]]

CondenseThrows(c, message) ==
    [c EXCEPT !.pc = "done",
              !.result = [status |-> "error", text |-> EmptyStr,
                          message |-> message]]

\* the call, to its return on the direct path, to the throw of
\* getOpenAIClient, or to the await of the model call
processKnowledgeBase ==
    /\ call.pc = "idle"
    /\ call' =
         IF UsesDirectPath(call.content, call.sourceType)
         THEN CondenseReturns(call, cleanedContent(call.content))
         ELSE IF ~apiKey THEN CondenseThrows(call, ErrConfig)
         ELSE [call EXCEPT !.pc = "model", !.invoked = TRUE,
                           !.sent = contentToProcess(call.content, call.sourceType)]
    /\ UNCHANGED appVars

\* openai.chat.completions.create settles
CondenserModelSettles ==
    /\ call.pc = "model"
    /\ \E r \in CondenseResults :
         call' = IF r.ok THEN CondenseReturns(call, r.text)
                 ELSE CondenseThrows(call, ErrModel)
    /\ UNCHANGED appVars

----------------------------------------------------------------------------
(* chatWithGPT: one call, from its arguments to the value or error it      *)
(* settles with.                                                           *)

maxKbContext == 20000

\* knowledge bases handed to the responder, around its threshold
KnowledgeBases ==
    {Str(0, n, 0) : n \in {0, 1, maxKbContext - 1, maxKbContext,
                            maxKbContext + 1, maxDirectLength}}
    \cup {Str(1, maxKbContext - 1, 1), Str(2, maxKbContext, 0),
          Str(maxKbContext + 1, 1, 0)}

\* the messages handed to the responder: never blank
ResponderMessages == {Str(0, 1, 0), Str(1, 1, 1)}

\* openai.chat.completions.create of chatWithGPT: rejected, or the content of
\* the first choice
ResponderResults ==
    {[ok |-> FALSE, text |-> EmptyStr]} \cup
    {[ok |-> TRUE, text |-> s] : s \in ModelOutputs}

NoReplyText == "I apologize, but I could not generate a response."
ErrWrapChat == "Failed to get response"

\* no call yet
RespondIdle(message, kb) ==
    [pc |-> "idle", message |-> message, knowledgeBase |-> kb,
     requests |-> 0, kbContext |-> EmptyStr, sentMessage |-> EmptyStr,
     result |-> [status |-> "pending", text |-> "", message |-> <<>>]]

RespondReturns(c, text) ==
    [c EXCEPT !.pc = "done",
              !.result = [status |-> "ok", text |-> text, message |-> <<>>]]

RespondThrows(c, message) ==
    [c EXCEPT !.pc = "done",
              !.result = [status |-> "error", text |-> "",
                          message |-> <<ErrWrapChat, message>>]]

\* knowledgeBase.substring(0, 20000) with the whole knowledge base kept
kbContext_Whole(kb) == kb

\* knowledgeBase.substring(0, 20000)
kbContext(kb) == Substring(kb, maxKbContext)

\* the call, to the throw of getOpenAIClient or to the await of the model call
chatWithGPT ==
    /\ call.pc = "idle"
    /\ call' =
         IF ~apiKey THEN RespondThrows(call, ErrConfig)
         ELSE [call EXCEPT !.pc = "model", !.requests = @ + 1,
                           !.kbContext = kbContext(call.knowledgeBase),
                           !.sentMessage = call.message]
    /\ UNCHANGED appVars

\* openai.chat.completions.create settles
ResponderModelSettles ==
    /\ call.pc = "model"
    /\ \E r \in ResponderResults :
         call' = IF ~r.ok THEN RespondThrows(call, ErrModel)
                 ELSE IF Falsy(r.text) THEN RespondReturns(call, NoReplyText)
                 ELSE RespondReturns(call, "reply")
    /\ UNCHANGED appVars

----------------------------------------------------------------------------
(* processPDF: one call.  Here a text is the sequence of its characters,   *)
(* a page is the sequence of the strings (item.str) of its text items, and *)
(* an error message is the sequence of its parts, outermost wrapper first. *)

Hello == <<"H", "e", "l", "l", "o">>
World == <<"W", "o", "r", "l", "d">>
Space == <<" ">>
BlankLine == <<"\n", "\n">>

IsWhitespace(c) == c \in {" ", "\n"}

RECURSIVE TrimStart(_)
TrimStart(t) ==
    IF t # <<>> /\ IsWhitespace(Head(t)) THEN TrimStart(Tail(t)) ELSE t

RECURSIVE TrimEnd(_)
TrimEnd(t) ==
    IF t # <<>> /\ IsWhitespace(t[Len(t)])
    THEN TrimEnd(SubSeq(t, 1, Len(t) - 1))
    ELSE t

\* String.prototype.trim
TrimText(t) == TrimEnd(TrimStart(t))

\* Array.prototype.join
RECURSIVE Join(_, _)
Join(items, sep) ==
    IF items = <<>> THEN <<>>
    ELSE IF Len(items) = 1 THEN items[1]
    ELSE items[1] \o sep \o Join(Tail(items), sep)

\* the pages of the PDF files picked
PdfDocuments ==
    { <<>>,
      << <<>> >>,
      << <<Hello>>, <<World>> >>,
      << <<Hello, World>> >>,
      << <<Space>>, <<>> >>,
      << <<>>, <<Hello>>, <<World, Hello>> >>,
      << <<<<>>, Hello>> >> }

\* result.value of mammoth.extractRawText for the Word files picked
WordValues ==
    { <<>>, Space \o BlankLine, Hello, Space \o Hello \o BlankLine \o World \o BlankLine }

\* what a decoder call settles with: done, or an Error with the decoder's text
DecoderOutcomes == {[ok |-> TRUE, text |-> ""],
                    [ok |-> FALSE, text |-> "decoder error"]}

ErrWrapFile == "Failed to process file: "
ErrWrapPDF == "Failed to process PDF: "
ErrWrapWord == "Failed to process Word document: "
ErrNoPdfText == "No text could be extracted from the PDF"
ErrNoWordText == "No text could be extracted from the Word document"

\* no call yet
DocumentIdle(file, pages, value) ==
    [pc |-> "idle", file |-> file, pages |-> pages, value |-> value,
     pageNum |-> 0, visited |-> <<>>, fullText |-> <<>>, decoder |-> "",
     invoked |-> <<>>,
     result |-> [status |-> "pending", text |-> <<>>, message |-> <<>>]]

DocumentReturns(c, text) ==
    [c EXCEPT !.pc = "done",
              !.result = [status |-> "ok", text |-> text, message |-> <<>>]]

\* a throw inside processPDFDocument or processWordDocument, wrapped by its
\* catch and then by the catch of processPDF
DocumentThrows(c, wrapper, message) ==
    [c EXCEPT !.pc = "done",
              !.result = [status |-> "error", text |-> <<>>,
                          message |-> <<ErrWrapFile, wrapper, message>>]]

\* the files handed to processPDF; ext: the lower-cased text after the last
\* dot of file.name
DocumentFiles ==
    Files \cup {[ext |-> ".doc", type |-> "application/msword"],
                [ext |-> ".pdf", type |-> "application/msword"],
                [ext |-> ".docx", type |-> "application/pdf"],
                [ext |-> ".bin", type |-> ""]}
          \cup {[ext |-> ".pdf", type |-> t] : t \in WordTypes}

\* IsWordDocument by the extension alone
IsWordDocument_ByExtension(file) == file.ext \in {".docx", ".doc"}

\* processPDF dispatches on the extension and the declared type
IsWordDocument(file) ==
    file.ext \in {".docx", ".doc"} \/ file.type \in WordTypes

\* the call starts: to the await of mammoth's or pdf.js's loading
processPDF ==
    /\ call.pc = "idle"
    /\ call' = IF IsWordDocument(call.file)
               THEN [call EXCEPT !.pc = "word", !.invoked = Append(@, "word")]
               ELSE [call EXCEPT !.pc = "load", !.invoked = Append(@, "pdf")]
    /\ UNCHANGED appVars

\* PdfLoopEnds without the test for empty text
PdfLoopEnds_NoEmptyCheck(c) == DocumentReturns(c, TrimText(c.fullText))

\* processPDFDocument after the page loop
PdfLoopEnds(c) ==
    IF TrimText(c.fullText) = <<>>
    THEN DocumentThrows(c, ErrWrapPDF, ErrNoPdfText)
    ELSE DocumentReturns(c, TrimText(c.fullText))

\* the loop goes on with the next page, or ends
PdfNextPage(c) ==
    IF c.pageNum + 1 <= Len(c.pages)
    THEN [c EXCEPT !.pc = "page", !.pageNum = @ + 1]
    ELSE PdfLoopEnds(c)

\* import('pdfjs-dist'), file.arrayBuffer() and getDocument settle
PdfLoadSettles ==
    /\ call.pc = "load"
    /\ \E r \in DecoderOutcomes :
         call' = IF r.ok THEN PdfNextPage(call)
                 ELSE DocumentThrows([call EXCEPT !.decoder = r.text],
                                     ErrWrapPDF, r.text)
    /\ UNCHANGED appVars

\* PdfPageSettles with the page's text put before the text so far
PdfPageSettles_Prepends ==
    /\ call.pc = "page"
    /\ \E r \in DecoderOutcomes :
         call' =
           IF r.ok
           THEN LET pageText == Join(call.pages[call.pageNum], Space)
                IN PdfNextPage([call EXCEPT
                      !.visited = Append(@, call.pageNum),
                      !.fullText = pageText \o BlankLine \o @])
           ELSE DocumentThrows([call EXCEPT !.decoder = r.text],
                               ErrWrapPDF, r.text)
    /\ UNCHANGED appVars

\* getPage(pageNum) and getTextContent() settle: the page's items are joined
\* and appended
PdfPageSettles ==
    /\ call.pc = "page"
    /\ \E r \in DecoderOutcomes :
         call' =
           IF r.ok
           THEN LET pageText == Join(call.pages[call.pageNum], Space)
                IN PdfNextPage([call EXCEPT
                      !.visited = Append(@, call.pageNum),
                      !.fullText = @ \o pageText \o BlankLine])
           ELSE DocumentThrows([call EXCEPT !.decoder = r.text],
                               ErrWrapPDF, r.text)
    /\ UNCHANGED appVars

\* import('mammoth'), file.arrayBuffer() and extractRawText settle
WordSettles ==
    /\ call.pc = "word"
    /\ \E r \in DecoderOutcomes :
         call' =
           IF ~r.ok
           THEN DocumentThrows([call EXCEPT !.decoder = r.text],
                               ErrWrapWord, r.text)
           ELSE IF call.value = <<>> \/ TrimText(call.value) = <<>>
           THEN DocumentThrows(call, ErrWrapWord, ErrNoWordText)
           ELSE DocumentReturns(call, TrimText(call.value))
    /\ UNCHANGED appVars

----------------------------------------------------------------------------
(* Initial state: the component as constructed by useState.                *)

AppInit ==
    /\ step = "landing"
    /\ knowledgeSource = Null
    /\ inputValue = EmptyStr
    /\ pdfFile = NoFile
    /\ messages = <<>>
    /\ isProcessing = FALSE
    /\ error = Null
    /\ knowledgeBase = EmptyStr
    /\ apiKey \in BOOLEAN
    /\ ingests = {}
    /\ chats = {}
    /\ timers = {}
    /\ session = 0
    /\ rejected = FALSE
    /\ calls = 0
    /\ blanks = FALSE

Init == AppInit /\ call = FetchIdle(FALSE)

\* one scrapeWebsite call, with or without each credential
FetchInit == AppInit /\ \E zyteKey \in BOOLEAN : call = FetchIdle(zyteKey)

----------------------------------------------------------------------------
(* Navigation and the input form.                                          *)

\* landing page: "Try Now" / "Start Free Trial"
TryNow ==
    /\ step = "landing"
    /\ step' = "input"
    /\ UNCHANGED <<call, blanks, knowledgeSource, inputValue, pdfFile, messages, isProcessing,
                   error, knowledgeBase, apiKey, ingests, chats, timers, session,
                   rejected, calls>>

\* input page: "Back"
Back ==
    /\ step = "input"
    /\ step' = "landing"
    /\ UNCHANGED <<call, blanks, knowledgeSource, inputValue, pdfFile, messages, isProcessing,
                   error, knowledgeBase, apiKey, ingests, chats, timers, session,
                   rejected, calls>>

handleSourceSelect(source) ==
    /\ knowledgeSource' = source
    /\ step' = "input"
    /\ UNCHANGED <<call, blanks, inputValue, pdfFile, messages, isProcessing, error,
                   knowledgeBase, apiKey, ingests, chats, timers, session,
                   rejected, calls>>

\* input page: a source card is clicked
SelectSource ==
    /\ step = "input"
    /\ \E source \in Selectable : handleSourceSelect(source)

\* input page: the text field of the selected source is edited
ChangeInput ==
    /\ step = "input"
    /\ knowledgeSource \notin {Null, "pdf"}
    /\ \E value \in InputValues : inputValue' = value
    /\ UNCHANGED <<call, blanks, step, knowledgeSource, pdfFile, messages, isProcessing, error,
                   knowledgeBase, apiKey, ingests, chats, timers, session,
                   rejected, calls>>

\* ChooseFile without the validation of the file type
ChooseFile_NoValidation ==
    /\ step = "input"
    /\ knowledgeSource = "pdf"
    /\ \E file \in Files :
          /\ pdfFile' = file
          /\ inputValue' = FileName(file)
          /\ error' = error
    /\ UNCHANGED <<call, blanks, step, knowledgeSource, messages, isProcessing, knowledgeBase,
                   apiKey, ingests, chats, timers, session, rejected, calls>>

\* input page: a file is picked in the file field
ChooseFile ==
    /\ step = "input"
    /\ knowledgeSource = "pdf"
    /\ \E file \in Files :
          IF file.ext \in validExtensions \/ file.type \in validTypes
          THEN /\ pdfFile' = file
               /\ inputValue' = FileName(file)
               /\ error' = error
          ELSE /\ error' = ErrFileType
               /\ UNCHANGED <<pdfFile, inputValue>>
    /\ UNCHANGED <<call, blanks, step, knowledgeSource, messages, isProcessing, knowledgeBase,
                   apiKey, ingests, chats, timers, session, rejected, calls>>

----------------------------------------------------------------------------
(* handleSubmitKnowledge.  A suspended invocation is a record: the await   *)
(* it is suspended at (stage), the knowledgeSource and pdfFile its closure *)
(* captured, the content on its way to the model, and the knowledge base   *)
(* and message list as they were when it was submitted (kb0, msgs0).       *)

Invocation(stage) ==
    [stage |-> stage, source |-> knowledgeSource, file |-> pdfFile,
     content |-> EmptyStr, pasted |-> EmptyStr, kb0 |-> knowledgeBase,
     msgs0 |-> messages]

\* IngestSucceeds with the welcome appended to the list instead of replacing it
IngestSucceeds_KeepsMessages(kb, rest, err0) ==
    /\ knowledgeBase' = kb
    /\ step' = "chat"
    /\ messages' = Append(messages, WelcomeMessage)
    /\ isProcessing' = FALSE
    /\ error' = err0
    /\ ingests' = rest
    /\ session' = session + 1
    /\ rejected' = FALSE
    /\ calls' = 0
    /\ UNCHANGED <<call, blanks, knowledgeSource, inputValue, pdfFile, apiKey, chats, timers>>

\* the try block ran to its end: the session is created; finally
IngestSucceeds(kb, rest, err0) ==
    /\ knowledgeBase' = kb
    /\ step' = "chat"
    /\ messages' = <<WelcomeMessage>>
    /\ isProcessing' = FALSE
    /\ error' = err0
    /\ ingests' = rest
    /\ session' = session + 1
    /\ rejected' = FALSE
    /\ calls' = 0
    /\ UNCHANGED <<call, blanks, knowledgeSource, inputValue, pdfFile, apiKey, chats, timers>>

\* IngestFails without the finally block: isProcessing stays set
IngestFails_NoFinally(message, rest) ==
    /\ error' = message
    /\ isProcessing' = TRUE
    /\ ingests' = rest
    /\ UNCHANGED <<call, blanks, step, knowledgeSource, inputValue, pdfFile, messages,
                   knowledgeBase, apiKey, chats, timers, session, rejected, calls>>

\* something threw: catch, finally
IngestFails(message, rest) ==
    /\ error' = message
    /\ isProcessing' = FALSE
    /\ ingests' = rest
    /\ UNCHANGED <<call, blanks, step, knowledgeSource, inputValue, pdfFile, messages,
                   knowledgeBase, apiKey, chats, timers, session, rejected, calls>>

\* the handler reached an await of an external call
IngestSuspends(inv, rest, err0, proc0) ==
    /\ ingests' = rest \cup {inv}
    /\ error' = err0
    /\ isProcessing' = proc0
    /\ UNCHANGED <<call, blanks, step, knowledgeSource, inputValue, pdfFile, messages,
                   knowledgeBase, apiKey, chats, timers, session, rejected, calls>>

\* from the check of rawContent to the await inside processKnowledgeBase
ProcessContent(rawContent, inv, rest, err0, proc0) ==
    IF Falsy(Trim(rawContent))
    THEN IngestFails(ErrNoContent, rest)
    ELSE IF UsesDirectPath(rawContent, inv.source)
    THEN IngestSucceeds(cleanedContent(rawContent), rest, err0)
    ELSE IF ~apiKey
    THEN IngestFails(ErrCondense, rest)
    ELSE IngestSuspends(
            [inv EXCEPT !.stage = "condense",
                        !.content = contentToProcess(rawContent, inv.source)],
            rest, err0, proc0)

\* SubmitDisabled without the test of isProcessing
SubmitDisabled_IgnoresProcessing == Falsy(Trim(inputValue)) /\ pdfFile = NoFile

\* the submit button is disabled
SubmitDisabled == (Falsy(Trim(inputValue)) /\ pdfFile = NoFile) \/ isProcessing

\* SubmitReturnsEarly missing: a blank submission goes on into the try block
SubmitReturnsEarly_GoesOn ==
    /\ Falsy(Trim(inputValue)) /\ pdfFile = NoFile
    /\ blanks' = TRUE
    /\ error' = ErrNoContent
    /\ UNCHANGED <<call, step, knowledgeSource, inputValue, pdfFile, messages,
                   isProcessing, knowledgeBase, apiKey, ingests, chats, timers,
                   session, rejected, calls>>

\* the handler returns at once: nothing to submit
SubmitReturnsEarly ==
    /\ Falsy(Trim(inputValue)) /\ pdfFile = NoFile
    /\ blanks' = TRUE
    /\ UNCHANGED <<call, step, knowledgeSource, inputValue, pdfFile, messages,
                   isProcessing, error, knowledgeBase, apiKey, ingests, chats,
                   timers, session, rejected, calls>>

\* the handler, from the click to its return or its first await of an
\* external call
handleSubmitKnowledge ==
  \/ SubmitReturnsEarly
  \/
    /\ ~(Falsy(Trim(inputValue)) /\ pdfFile = NoFile)
    /\ CASE knowledgeSource = "link" ->
              IngestSuspends(Invocation("scrape"), ingests, Null, TRUE)
         [] knowledgeSource = "pdf" /\ pdfFile # NoFile ->
              IngestSuspends(Invocation("document"), ingests, Null, TRUE)
         [] knowledgeSource \in SocialKinds ->
              \E r \in SocialScrapeResults :
                  IF r.ok
                  THEN ProcessContent(r.text, Invocation("scrape"),
                                      ingests, Null, TRUE)
                  ELSE \E manualContent \in PromptAnswers :
                         IF manualContent.ok /\ ~Falsy(manualContent.text)
                         THEN ProcessContent(
                                manualContent.text,
                                [Invocation("manual") EXCEPT
                                    !.pasted = manualContent.text],
                                ingests, Null, TRUE)
                         ELSE IngestFails(ErrNoManual, ingests)
         [] OTHER ->
              ProcessContent(EmptyStr, Invocation("none"), ingests, Null, TRUE)

\* input page: "Start Training Chatbot"
SubmitKnowledge ==
    /\ step = "input"
    /\ knowledgeSource # Null
    /\ ~SubmitDisabled
    /\ session < MaxSessions
    /\ handleSubmitKnowledge

\* scrapeWebsite settles; the handler goes on, through the paste dialogs when
\* it failed
ScrapeSettles ==
    \E inv \in ingests :
      /\ inv.stage = "scrape"
      /\ \E r \in ScrapeResults :
           LET rest == ingests \ {inv} IN
           IF r.ok
           THEN ProcessContent(r.text, inv, rest, error, isProcessing)
           ELSE \E shouldPaste \in BOOLEAN, pastedContent \in PromptAnswers :
                  IF ~shouldPaste
                  THEN IngestFails(ErrScrape, rest)
                  ELSE IF /\ pastedContent.ok
                          /\ ~Falsy(pastedContent.text)
                          /\ Length(Trim(pastedContent.text)) > MinPastedLength
                  THEN ProcessContent(Trim(pastedContent.text),
                                      [inv EXCEPT !.pasted = pastedContent.text],
                                      rest, error, isProcessing)
                  ELSE IngestFails(ErrNoPaste, rest)

\* processPDF settles
DocumentSettles ==
    \E inv \in ingests :
      /\ inv.stage = "document"
      /\ \E r \in DocumentResults :
           LET rest == ingests \ {inv} IN
           IF r.ok
           THEN ProcessContent(r.text, inv, rest, error, isProcessing)
           ELSE IngestFails(ErrDocument, rest)

\* CondenseSettles with the raw content kept when the model call fails
CondenseSettles_KeepsRaw ==
    \E inv \in ingests :
      /\ inv.stage = "condense"
      /\ \E r \in CondenseResults :
           LET rest == ingests \ {inv} IN
           IF r.ok
           THEN IngestSucceeds(r.text, rest, error)
           ELSE IngestSucceeds(inv.content, rest, error)

\* the model call of processKnowledgeBase settles
CondenseSettles ==
    \E inv \in ingests :
      /\ inv.stage = "condense"
      /\ \E r \in CondenseResults :
           LET rest == ingests \ {inv} IN
           IF r.ok
           THEN IngestSucceeds(r.text, rest, error)
           ELSE IngestFails(ErrCondense, rest)

----------------------------------------------------------------------------
(* handleSendMessage.  A suspended invocation holds what its closure       *)
(* captured: the user-message count of the render it was called from, the  *)
(* knowledge base, and (for reference) the session and the turn.           *)

\* SendRejected without the cap check: the submission is taken as a turn
SendRejected_NoCap(text) ==
    /\ ~Falsy(Trim(text))
    /\ UserCount(messages) >= MaxUserMessages
    /\ messages' = Append(messages,
                          Message("user", "user", UserCount(messages) + 1))
    /\ isProcessing' = TRUE
    /\ error' = Null
    /\ chats' = chats \cup {[count |-> UserCount(messages),
                             kb |-> knowledgeBase,
                             session |-> session,
                             turn |-> UserCount(messages) + 1]}
    /\ calls' = calls + 1
    /\ UNCHANGED <<call, blanks, step, knowledgeSource, inputValue, pdfFile, knowledgeBase,
                   apiKey, ingests, timers, session, rejected>>

\* the cap check refuses the submission
SendRejected(text) ==
    /\ ~Falsy(Trim(text))
    /\ UserCount(messages) >= MaxUserMessages
    /\ step' = "conversion"
    /\ rejected' = TRUE
    /\ UNCHANGED <<call, blanks, knowledgeSource, inputValue, pdfFile, messages, isProcessing,
                   error, knowledgeBase, apiKey, ingests, chats, timers, session,
                   calls>>

\* SendAccepted without setIsProcessing(true): the form stays enabled
SendAccepted_NotProcessing(text) ==
    LET userMessageCount == UserCount(messages)
        userMessage == Message("user", "user", userMessageCount + 1)
        errorMessage == Message("bot", ApologyText, userMessageCount + 1)
    IN
    /\ ~Falsy(Trim(text))
    /\ userMessageCount < MaxUserMessages
    /\ IF apiKey
       THEN /\ messages' = Append(messages, userMessage)
            /\ isProcessing' = isProcessing
            /\ error' = Null
            /\ chats' = chats \cup {[count |-> userMessageCount,
                                     kb |-> knowledgeBase,
                                     session |-> session,
                                     turn |-> userMessageCount + 1]}
       ELSE /\ messages' = Append(Append(messages, userMessage), errorMessage)
            /\ isProcessing' = FALSE
            /\ error' = ErrChat
            /\ chats' = chats
    /\ calls' = calls + 1
    /\ UNCHANGED <<call, blanks, step, knowledgeSource, inputValue, pdfFile, knowledgeBase,
                   apiKey, ingests, timers, session, rejected>>

\* SendAccepted with the responder given the initial, empty knowledge base
SendAccepted_StaleKnowledgeBase(text) ==
    LET userMessageCount == UserCount(messages)
        userMessage == Message("user", "user", userMessageCount + 1)
        errorMessage == Message("bot", ApologyText, userMessageCount + 1)
    IN
    /\ ~Falsy(Trim(text))
    /\ userMessageCount < MaxUserMessages
    /\ IF apiKey
       THEN /\ messages' = Append(messages, userMessage)
            /\ isProcessing' = TRUE
            /\ error' = Null
            /\ chats' = chats \cup {[count |-> userMessageCount,
                                     kb |-> EmptyStr,
                                     session |-> session,
                                     turn |-> userMessageCount + 1]}
       ELSE /\ messages' = Append(Append(messages, userMessage), errorMessage)
            /\ isProcessing' = FALSE
            /\ error' = ErrChat
            /\ chats' = chats
    /\ calls' = calls + 1
    /\ UNCHANGED <<call, blanks, step, knowledgeSource, inputValue, pdfFile, knowledgeBase,
                   apiKey, ingests, timers, session, rejected>>

\* the submission is accepted: the user message is appended and the
\* responder is called; without a credential chatWithGPT rejects before any
\* request is made and the catch block runs in the same task
SendAccepted(text) ==
    LET userMessageCount == UserCount(messages)
        userMessage == Message("user", "user", userMessageCount + 1)
        errorMessage == Message("bot", ApologyText, userMessageCount + 1)
    IN
    /\ ~Falsy(Trim(text))
    /\ userMessageCount < MaxUserMessages
    /\ IF apiKey
       THEN /\ messages' = Append(messages, userMessage)
            /\ isProcessing' = TRUE
            /\ error' = Null
            /\ chats' = chats \cup {[count |-> userMessageCount,
                                     kb |-> knowledgeBase,
                                     session |-> session,
                                     turn |-> userMessageCount + 1]}
       ELSE /\ messages' = Append(Append(messages, userMessage), errorMessage)
            /\ isProcessing' = FALSE
            /\ error' = ErrChat
            /\ chats' = chats
    /\ calls' = calls + 1
    /\ UNCHANGED <<call, blanks, step, knowledgeSource, inputValue, pdfFile, knowledgeBase,
                   apiKey, ingests, timers, session, rejected>>

\* the handler returns at once: blank text
SendBlank(text) ==
    /\ Falsy(Trim(text))
    /\ blanks' = TRUE
    /\ UNCHANGED <<call, step, knowledgeSource, inputValue, pdfFile, messages,
                   isProcessing, error, knowledgeBase, apiKey, ingests, chats,
                   timers, session, rejected, calls>>

handleSendMessage(text) ==
    SendBlank(text) \/ SendRejected(text) \/ SendAccepted(text)

\* SubmitChatForm with the form left enabled while isProcessing
SubmitChatForm_NotDisabled ==
    /\ step = "chat"
    /\ ~isLimitReached
    /\ \E text \in ChatTexts : ~Falsy(Trim(text)) /\ handleSendMessage(text)

\* chat page: the form is submitted (it is rendered below the cap only, and
\* disabled while isProcessing)
SubmitChatForm ==
    /\ step = "chat"
    /\ ~isLimitReached
    /\ ~isProcessing
    /\ \E text \in ChatTexts : ~Falsy(Trim(text)) /\ handleSendMessage(text)

\* handleSendMessage is called at the cap.  The chat page offers no such call
\* (it shows the limit notice in place of the form), so this is not a step of
\* Spec: it exercises the handler's own check of the count, in HandlerSpec.
SubmitAtLimit ==
    /\ step = "chat"
    /\ isLimitReached
    /\ \E text \in ChatTexts : handleSendMessage(text)

\* what the chat form would hand over if it did not test input.value.trim()
BlankTexts == {EmptyStr, Str(1, 0, 0)}

\* handleSendMessage is called with blank text.  The chat form makes no such
\* call (it tests input.value.trim() first), so this is not a step of Spec.
SubmitBlankChat ==
    /\ step = "chat"
    /\ \E text \in BlankTexts : handleSendMessage(text)

\* handleSubmitKnowledge is called with nothing to submit.  The button is
\* disabled then, so this is not a step of Spec.
SubmitBlankKnowledge ==
    /\ step = "input"
    /\ knowledgeSource # Null
    /\ Falsy(Trim(inputValue)) /\ pdfFile = NoFile
    /\ handleSubmitKnowledge

\* chatWithGPT resolves: the reply is appended, and after the last turn the
\* transition to the conversion page is scheduled
ChatResolves ==
    \E c \in chats :
      LET botMessage == Message("bot", "reply", c.turn)
          newUserMessageCount == c.count + 1
      IN
      /\ messages' = Append(messages, botMessage)
      /\ timers' = IF newUserMessageCount >= MaxUserMessages
                   THEN timers \cup {c.session}
                   ELSE timers
      /\ isProcessing' = FALSE
      /\ chats' = chats \ {c}
      /\ UNCHANGED <<call, blanks, step, knowledgeSource, inputValue, pdfFile, error,
                     knowledgeBase, apiKey, ingests, session, rejected, calls>>

\* ChatRejects without the substituted message
ChatRejects_NoMessage ==
    \E c \in chats :
      /\ error' = ErrChat
      /\ isProcessing' = FALSE
      /\ chats' = chats \ {c}
      /\ UNCHANGED <<call, blanks, step, knowledgeSource, inputValue, pdfFile, messages,
                     knowledgeBase, apiKey, ingests, timers, session, rejected,
                     calls>>

\* ChatRejects without setError
ChatRejects_NoError ==
    \E c \in chats :
      /\ messages' = Append(messages, Message("bot", ApologyText, c.turn))
      /\ isProcessing' = FALSE
      /\ chats' = chats \ {c}
      /\ UNCHANGED <<call, blanks, step, knowledgeSource, inputValue, pdfFile, error,
                     knowledgeBase, apiKey, ingests, timers, session, rejected,
                     calls>>

\* ChatRejects with the failed turn given back: its user message is removed
ChatRejects_Refunds ==
    \E c \in chats :
      /\ messages' = SubSeq(messages, 1, Len(messages) - 1)
      /\ error' = ErrChat
      /\ isProcessing' = FALSE
      /\ chats' = chats \ {c}
      /\ UNCHANGED <<call, blanks, step, knowledgeSource, inputValue, pdfFile, knowledgeBase,
                     apiKey, ingests, timers, session, rejected, calls>>

\* chatWithGPT rejects: the fixed message is appended, the error recorded
ChatRejects ==
    \E c \in chats :
      LET errorMessage == Message("bot", ApologyText, c.turn) IN
      /\ messages' = Append(messages, errorMessage)
      /\ error' = ErrChat
      /\ isProcessing' = FALSE
      /\ chats' = chats \ {c}
      /\ UNCHANGED <<call, blanks, step, knowledgeSource, inputValue, pdfFile, knowledgeBase,
                     apiKey, ingests, timers, session, rejected, calls>>

\* the callback of setTimeout runs
TimerFires ==
    \E t \in timers :
      /\ step' = "conversion"
      /\ timers' = timers \ {t}
      /\ UNCHANGED <<call, blanks, knowledgeSource, inputValue, pdfFile, messages,
                     isProcessing, error, knowledgeBase, apiKey, ingests, chats,
                     session, rejected, calls>>

\* chat page: "Home"
Home ==
    /\ step = "chat"
    /\ step' = "landing"
    /\ UNCHANGED <<call, blanks, knowledgeSource, inputValue, pdfFile, messages, isProcessing,
                   error, knowledgeBase, apiKey, ingests, chats, timers, session,
                   rejected, calls>>

\* chat page: "Get Started" of the limit notice
GetStarted ==
    /\ step = "chat"
    /\ isLimitReached
    /\ step' = "conversion"
    /\ UNCHANGED <<call, blanks, knowledgeSource, inputValue, pdfFile, messages, isProcessing,
                   error, knowledgeBase, apiKey, ingests, chats, timers, session,
                   rejected, calls>>

----------------------------------------------------------------------------

Next ==
    \/ TryNow
    \/ Back
    \/ SelectSource
    \/ ChangeInput
    \/ ChooseFile
    \/ SubmitKnowledge
    \/ ScrapeSettles
    \/ DocumentSettles
    \/ CondenseSettles
    \/ SubmitChatForm
    \/ ChatResolves
    \/ ChatRejects
    \/ TimerFires
    \/ Home
    \/ GetStarted

Spec == Init /\ [][Next]_vars

\* the application, with handleSendMessage also called past the input surface
HandlerNext == Next \/ SubmitAtLimit

HandlerSpec == Init /\ [][HandlerNext]_vars

\* the application, with both handlers also called with blank submissions
BlankNext == Next \/ SubmitBlankChat \/ SubmitBlankKnowledge

BlankSpec == Init /\ [][BlankNext]_vars

\* every external call settles and every timer fires; the user need not act
FairSpec ==
    /\ Spec
    /\ WF_vars(ScrapeSettles)
    /\ WF_vars(DocumentSettles)
    /\ WF_vars(CondenseSettles)
    /\ WF_vars(ChatResolves \/ ChatRejects)
    /\ WF_vars(TimerFires)

\* one processKnowledgeBase call, for every content and source kind
CondenseInit ==
    /\ AppInit
    /\ \E content \in CondenserContents :
         \E i \in 1..Len(SourceKinds) : call = CondenseIdle(content, SourceKinds[i])

CondenseNext == processKnowledgeBase \/ CondenserModelSettles

CondenseSpec == CondenseInit /\ [][CondenseNext]_vars

\* one processPDF call, for every file, page list and Word text
DocumentInit ==
    /\ AppInit
    /\ \E file \in DocumentFiles, pages \in PdfDocuments, value \in WordValues :
         call = DocumentIdle(file, pages, value)

DocumentNext == processPDF \/ PdfLoadSettles \/ PdfPageSettles \/ WordSettles

DocumentSpec == DocumentInit /\ [][DocumentNext]_vars

NormalizeInit ==
    /\ AppInit
    /\ \E in \in NormalizerInputs : \E domThrows \in BOOLEAN :
         call = NormalizeIdle(in, domThrows)

NormalizeNext == NormalizerRuns

NormalizeSpec == NormalizeInit /\ [][NormalizeNext]_vars

RespondInit ==
    /\ AppInit
    /\ \E message \in ResponderMessages : \E kb \in KnowledgeBases :
         call = RespondIdle(message, kb)

RespondNext == chatWithGPT \/ ResponderModelSettles

RespondSpec == RespondInit /\ [][RespondNext]_vars

FetchNext == ScrapeStarts \/ BackendSettles \/ RelaySettles \/ ModelSettles

FetchSpec == FetchInit /\ [][FetchNext]_vars

TypeOK ==
    /\ step \in {"landing", "input", "chat", "conversion"}
    /\ isProcessing \in BOOLEAN
    /\ session \in 0..MaxSessions

----------------------------------------------------------------------------
(* Properties.                                                             *)

LastMessage == messages[Len(messages)]

\* the bot messages after the welcome message
Replies(msgs) == {i \in 2..Len(msgs) : msgs[i].sender = "bot"}

\* the fixed messages substituted for a failed reply
Apologies(msgs) == {i \in 1..Len(msgs) : msgs[i].text = ApologyText}

\* C1: the message list never holds more than 3 user messages, and a call of
\* handleSendMessage made when it holds 3 appends nothing and does not invoke
\* the responder.
C1_UserMessagesCapped ==
    /\ [](UserCount(messages) <= MaxUserMessages)
    /\ [][(/\ step = "chat"
           /\ UserCount(messages) >= MaxUserMessages
           /\ \E text \in ChatTexts : handleSendMessage(text))
          => (messages' = messages /\ chats' = chats /\ calls' = calls)]_vars

\* C1, witness: a submission was refused at 3 user messages
C1_Witness ==
    rejected /\ UserCount(messages) = MaxUserMessages /\ calls = MaxUserMessages

\* C2: at most one chatWithGPT call is in flight, and every reply in the list
\* directly follows the user message it answers, the turns in submission
\* order.
C2_SingleTurnInFlight ==
    /\ Cardinality(chats) <= 1
    /\ \A i \in 1..Len(messages) :
          /\ messages[i].sender = "user" =>
                messages[i].turn = UserCount(SubSeq(messages, 1, i))
          /\ i \in Replies(messages) =>
                /\ messages[i - 1].sender = "user"
                /\ messages[i - 1].turn = messages[i].turn

\* C2, witness: the second turn is in flight, the first one answered
C2_Witness ==
    /\ Cardinality(chats) = 1
    /\ UserCount(messages) = 2
    /\ Cardinality(Replies(messages)) = 1

\* C3 as stated: the count never includes a user message whose reply is
\* outstanding.
C3_CountExcludesOutstanding ==
    \A c \in chats : UserCount(messages) = c.count

\* C3, amended: the count is advanced at submission; while a reply is
\* outstanding the count includes exactly that one unanswered user message,
\* which is the last of the list, and every other counted message has its
\* reply.
C3_CountIncludesOnlyLastOutstanding ==
    /\ \A c \in chats :
          /\ UserCount(messages) = c.count + 1
          /\ LastMessage.sender = "user"
          /\ LastMessage.turn = c.turn
    /\ Cardinality(Replies(messages)) = UserCount(messages) - Cardinality(chats)

\* C3, witness: the third user message is counted while its reply is
\* outstanding
C3_Witness ==
    /\ chats # {}
    /\ UserCount(messages) = MaxUserMessages
    /\ Cardinality(Replies(messages)) = MaxUserMessages - 1

\* C4: step changes to 'conversion' only when the message list of the active
\* session holds at least 3 user messages.
C4_ConversionOnlyAtCap ==
    [][(step # "conversion" /\ step' = "conversion")
       => UserCount(messages) >= MaxUserMessages]_vars

\* C5: once step is 'conversion' it stays 'conversion' and the message list
\* never changes again.
C5_ConversionTerminal ==
    [][step = "conversion"
       => (step' = "conversion" /\ messages' = messages)]_vars

\* C6: every transition into 'conversion' is taken from 'chat'.
C6_ConversionFromChat ==
    [][(step # "conversion" /\ step' = "conversion") => step = "chat"]_vars

\* the reply to the 3rd user message has been appended
ThirdReplyAppended ==
    /\ Len(messages) > 0
    /\ LastMessage.sender = "bot"
    /\ LastMessage.turn = MaxUserMessages

\* C7: whenever the reply to the 3rd user message has been appended, the
\* responder's or the substituted one, step eventually becomes 'conversion'
\* without a further user action.
C7_ThirdReplyLeadsToConversion ==
    ThirdReplyAppended ~> (step = "conversion")

\* C8: whenever a chat session is created the knowledge base stored for it is
\* a non-empty string.
C8_KnowledgeBaseNonEmpty ==
    [][session' # session => ~Falsy(knowledgeBase')]_vars

\* a responder call fails in this step
ResponderFails == ChatRejects \/ (~apiKey /\ SubmitChatForm)

\* C9: when a responder call fails, exactly one bot message with the fixed
\* text is appended as the reply, the reason is recorded in error, step is
\* left as it is, and the input is enabled again.
C9_FailedTurnDegrades ==
    [][ResponderFails
       => /\ Len(messages') > Len(messages)
          /\ SubSeq(messages', 1, Len(messages)) = messages
          /\ messages'[Len(messages')].sender = "bot"
          /\ messages'[Len(messages')].text = ApologyText
          /\ Cardinality(Apologies(messages')) =
                Cardinality(Apologies(messages)) + 1
          /\ Cardinality(Replies(messages')) =
                Cardinality(Replies(messages)) + 1
          /\ error' = ErrChat
          /\ step' = step
          /\ isProcessing' = FALSE]_vars

\* C9, witness: after a failed first turn a second user message was accepted
C9_Witness ==
    /\ step = "chat"
    /\ Len(messages) = 4
    /\ messages[3].text = ApologyText
    /\ messages[4].sender = "user"

\* an ingestion fails in this step: the invocation ends, without a session
IngestionFails ==
    /\ session' = session
    /\ \/ SubmitKnowledge /\ ingests' = ingests
       \/ /\ ScrapeSettles \/ DocumentSettles \/ CondenseSettles
          /\ Cardinality(ingests') < Cardinality(ingests)

IngestErrors == {ErrNoContent, ErrNoPaste, ErrNoManual, ErrScrape, ErrDocument,
                 ErrCondense}

\* C10: on an ingestion failure the error is set, step is not changed, the
\* knowledge base and the message list are those stored before the
\* submission, and isProcessing is false again.
C10_IngestionFailureRecoverable ==
    [][IngestionFails
       => /\ error' \in IngestErrors
          /\ step' = step
          /\ step' # "chat"
          /\ knowledgeBase' = knowledgeBase
          /\ messages' = messages
          /\ \A inv \in ingests \ ingests' :
                knowledgeBase' = inv.kb0 /\ messages' = inv.msgs0
          /\ isProcessing' = FALSE]_vars

\* C10, witness: a later ingestion failed at the condenser and the earlier
\* session's knowledge base and messages are still stored
C10_Witness ==
    /\ error = ErrCondense
    /\ ~isProcessing
    /\ ingests = {}
    /\ session = 1
    /\ Len(messages) > 1
    /\ ~Falsy(knowledgeBase)

(***************************************************************************)
(* C11: every successful ingestion starts the chat session with a message  *)
(* list of exactly one message, the bot's welcome, and a user turn count   *)
(* of 0, whatever messages an earlier session left in the list.            *)
(***************************************************************************)
C11_SessionStartsWithWelcome ==
    [][session' # session
          => /\ messages' = <<WelcomeMessage>>
             /\ messages'[1].sender = "bot"
             /\ UserCount(messages') = 0]_vars

\* a second session has just started while the first one's third reply had
\* still its conversion timer pending: the first session left seven messages
C11_Witness ==
    /\ session = 2
    /\ 1 \in timers
    /\ step = "chat"
    /\ messages = <<WelcomeMessage>>

\* the strategies of one call in attempt order: 0 is the scraping backend,
\* 1..NumRelays the relays
Strategies(zyteKey) ==
    (IF zyteKey THEN <<0>> ELSE <<>>) \o [k \in 1..NumRelays |-> k]

(***************************************************************************)
(* C12: the retrieval attempts of one scrapeWebsite call are a prefix of   *)
(* [backend (only with its credential), relay 1, relay 2, relay 3]: a      *)
(* strategy is attempted only after all earlier ones failed, none after    *)
(* the first success, none twice, and the markup used is the body that     *)
(* the first successful strategy returned.                                 *)
(***************************************************************************)
C12_AttemptsArePrefix ==
    LET a == call.attempts
        order == Strategies(call.zyteKey)
    IN /\ Len(a) <= Len(order)
       /\ \A k \in 1..Len(a) : a[k].strategy = order[k]
       /\ \A k \in 1..(Len(a) - 1) : a[k].outcome # "ok"
       /\ call.html # NoMarkup
             <=> (Len(a) > 0 /\ a[Len(a)].outcome = "ok")
       /\ call.html # NoMarkup => call.html = a[Len(a)].body
       /\ call.pc = "model" \/ call.result.message # ErrAllFailed
             \/ Len(a) = Len(order)
       /\ call.result.message = ErrAllFailed => call.html = NoMarkup

\* relay 3 returned the markup after relays 1 and 2 failed, without a backend
C12_Witness ==
    /\ ~call.zyteKey
    /\ Len(call.attempts) = NumRelays
    /\ call.attempts[1].outcome = "http"
    /\ call.attempts[2].outcome = "short"
    /\ call.attempts[NumRelays].outcome = "ok"
    /\ call.html = call.attempts[NumRelays].body
    /\ call.result.status = "ok"

(***************************************************************************)
(* C13: no strategy, the scraping backend included, hands markup without   *)
(* one of the anchors '<html', '<body', '<!DOCTYPE' to the normalizer: a   *)
(* body without any of them counts as a failed attempt and is never the    *)
(* fetched content.                                                        *)
(***************************************************************************)
C13_FetchedMarkupHasAnchor ==
    /\ call.html # NoMarkup => call.html.anchors
    /\ \A k \in 1..Len(call.attempts) :
          ~call.attempts[k].body.anchors => call.attempts[k].outcome # "ok"

(***************************************************************************)
(* C14: when every strategy of a scrapeWebsite call fails, the error's     *)
(* message carries the failure reason of the last strategy that failed in  *)
(* attempt order, whether an HTTP error, a network error, a too-short body *)
(* or a body without markup anchors.                                       *)
(***************************************************************************)
C14_ErrorCarriesLastFailure ==
    call.result.message = ErrAllFailed
        => LET last == call.attempts[Len(call.attempts)]
           IN call.result.cause = [by |-> last.strategy, reason |-> last.outcome]

(***************************************************************************)
(* C15: after a model extraction attempt scrapeWebsite returns the model's *)
(* text if it has at least 500 characters; otherwise the normalized        *)
(* (structural/regex) text if that has at least 50 characters, whether the *)
(* model call failed or returned too little; otherwise it fails with the   *)
(* 'no meaningful content' error.                                          *)
(***************************************************************************)
C15_FallbackKeepsNormalizedText ==
    (call.pc = "done" /\ call.extracted.status # "none")
        => IF call.extracted.status = "ok"
              /\ Length(call.extracted.text) >= MinModelLength
           THEN call.result.status = "ok"
                /\ call.result.text = call.extracted.text
           ELSE IF Length(call.normalized) >= MinScrapedLength
           THEN call.result.status = "ok"
                /\ call.result.text = call.normalized
           ELSE call.result.status = "error"
                /\ call.result.message = ErrNoText

(***************************************************************************)
(* C16: the model extraction is invoked exactly when normalized length /   *)
(* markup length is below 5% or the normalized text has fewer than 500     *)
(* characters.                                                             *)
(***************************************************************************)
C16_ModelInvokedExactlyBelowThresholds ==
    call.html # NoMarkup
        => (call.invoked
              <=> \/ 100 * Length(call.normalized) < LowRatioPercent * call.html.len
                  \/ Length(call.normalized) < MinNormalizedLength)

\* the model path of processKnowledgeBase: the content is longer than
\* maxDirectLength or the source kind is neither 'link' nor 'pdf'
ModelPath(content, sourceType) ==
    Length(content) > maxDirectLength \/ sourceType \notin {"link", "pdf"}

(***************************************************************************)
(* C17, as stated: processKnowledgeBase invokes the language model if and  *)
(* only if the content is longer than 50,000 characters or the source kind *)
(* is neither 'link' nor 'pdf'.                                            *)
(***************************************************************************)
C17_ModelCallIffLongOrSocial ==
    call.pc # "idle"
        => (call.invoked <=> ModelPath(call.content, call.sourceType))

(***************************************************************************)
(* C17, amended: processKnowledgeBase returns the cleaned content without  *)
(* a model call if and only if the content has at most 50,000 characters   *)
(* and the source kind is 'link' or 'pdf'; otherwise it invokes the model  *)
(* when the credential is set and fails with the configuration error,      *)
(* without a call, when it is not.                                         *)
(***************************************************************************)
C17_ModelCallIffLongOrSocialWithKey ==
    call.pc # "idle"
        => /\ call.invoked <=> (apiKey /\ ModelPath(call.content, call.sourceType))
           /\ ~ModelPath(call.content, call.sourceType)
                 => call.result = [status |-> "ok",
                                   text |-> cleanedContent(call.content),
                                   message |-> ""]
           /\ (~apiKey /\ ModelPath(call.content, call.sourceType))
                 => (call.result.status = "error" /\ call.result.message = ErrConfig)

\* a model call is in flight for 50,001 characters scraped from a link
C17_Witness ==
    /\ call.pc = "model"
    /\ call.invoked
    /\ call.sourceType = "link"
    /\ call.content = Str(0, maxDirectLength + 1, 0)

(***************************************************************************)
(* C18: if the condenser's model call fails the ingestion fails: no chat   *)
(* session is created, the stored knowledge base is not set to the raw     *)
(* extracted text, and the error is shown.  An ingestion whose model call  *)
(* has settled either stores the model's output or fails in this way.      *)
(***************************************************************************)
C18_CondenserFailureFailsIngestion ==
    [][\A inv \in ingests \ ingests' :
          inv.stage = "condense"
            => \/ /\ session' = session + 1
                  /\ \E r \in CondenseResults : r.ok /\ knowledgeBase' = r.text
               \/ /\ session' = session
                  /\ step' = step
                  /\ messages' = messages
                  /\ knowledgeBase' = knowledgeBase
                  /\ knowledgeBase' # inv.content
                  /\ error' = ErrCondense
                  /\ ~isProcessing']_vars

\* with the credential set, the model call for 50,001 scraped characters has
\* failed: the input page shows the error and no session exists
C18_Witness ==
    /\ apiKey
    /\ error = ErrCondense
    /\ knowledgeSource = "link"
    /\ ingests = {}
    /\ session = 0
    /\ step = "input"
    /\ knowledgeBase = EmptyStr
    /\ ~isProcessing

(***************************************************************************)
(* C19: a missing model credential is fatal and never masked by a          *)
(* fallback: when an operation that needs the model runs without it, the   *)
(* operation's caller fails with the configuration error, and does not go  *)
(* on with degraded text.  Here the operation is the semantic extraction   *)
(* and the caller is scrapeWebsite.                                        *)
(***************************************************************************)
C19_MissingCredentialIsFatal ==
    (~apiKey /\ call.invoked /\ call.pc = "done")
        => /\ call.result.status = "error"
           /\ call.result.message = ErrConfig

(***************************************************************************)
(* C20: for every social-profile source and every input the scrape         *)
(* function fails without content; the ingestion then goes on only with    *)
(* manually pasted content, and fails with an error when the user gives    *)
(* none.  A submission for a social source either fails at once or leaves  *)
(* the model call for the pasted text in flight, and a session for a       *)
(* social source comes from such a call only.                              *)
(***************************************************************************)
C20_SocialOnlyThroughPaste ==
    /\ [][(SubmitKnowledge /\ knowledgeSource \in SocialKinds)
            => \/ /\ ingests' = ingests
                  /\ session' = session
                  /\ error' \in {ErrNoManual, ErrNoContent, ErrCondense}
                  /\ ~isProcessing'
               \/ /\ session' = session
                  /\ \E inv \in ingests' \ ingests :
                        /\ inv.stage = "condense"
                        /\ inv.source = knowledgeSource
                        /\ ~Falsy(inv.pasted)
                        /\ inv.content = contentToProcess(inv.pasted, inv.source)]_vars
    /\ [][\A inv \in ingests \ ingests' :
            (inv.source \in SocialKinds /\ session' # session)
                => inv.stage = "condense" /\ ~Falsy(inv.pasted)]_vars

\* a session created from text pasted for the last of the social sources
C20_Witness ==
    /\ knowledgeSource = "tiktok"
    /\ session = 1
    /\ step = "chat"
    /\ messages = <<WelcomeMessage>>
    /\ ~Falsy(knowledgeBase)

(***************************************************************************)
(* C21: manually pasted text is accepted as raw content only if it is      *)
(* longer than 10 characters, for every source kind that offers the paste  *)
(* fallback, and accepted text is passed on unchanged: an ingestion that   *)
(* goes on with pasted text holds more than 10 characters of it, as typed. *)
(***************************************************************************)
C21_PastedTextLongerThanTen ==
    \A inv \in ingests :
        ~Falsy(inv.pasted)
            => /\ Length(inv.pasted) > MinPastedLength
               /\ inv.content = inv.pasted

\* the file is a .pdf, .doc or .docx file, by its name or its declared type
Supported(file) == file.ext \in validExtensions \/ file.type \in validTypes

(***************************************************************************)
(* C22: a document that is not a .pdf, .doc or .docx file is rejected with *)
(* a validation error before any extraction: whatever files and sources    *)
(* were selected and whatever was submitted, the stored file and the file  *)
(* of every decoder invocation is of a supported type, and a selection     *)
(* either stores a supported file or shows the validation error and stores *)
(* nothing; it starts no extraction.                                       *)
(***************************************************************************)
C22_NoDecoderOnUnsupportedFile ==
    /\ [](pdfFile # NoFile => Supported(pdfFile))
    /\ [](\A inv \in ingests :
            inv.stage = "document" => (inv.file # NoFile /\ Supported(inv.file)))
    /\ [][ChooseFile
            => /\ ingests' = ingests
               /\ \/ pdfFile' # NoFile /\ Supported(pdfFile') /\ error' = error
                  \/ pdfFile' = pdfFile /\ error' = ErrFileType]_vars

\* a decoder runs on a file accepted on its extension alone, while a later
\* selection of a text file has been refused
C22_Witness ==
    /\ error = ErrFileType
    /\ \E inv \in ingests :
          /\ inv.stage = "document"
          /\ inv.file.type \notin validTypes
          /\ Supported(inv.file)

\* the 2-page document whose pages yield the items "Hello" and "World"
HelloWorldDocument == << <<Hello>>, <<World>> >>

\* a finished PDF extraction of the document
PdfExtracted(pages) ==
    /\ call.pc = "done"
    /\ call.result.status = "ok"
    /\ ~IsWordDocument(call.file)
    /\ call.pages = pages

\* pages visited in ascending order, items joined with single spaces, pages
\* joined with a blank line, the whole trimmed
PagesJoinedInOrder ==
    (call.pc = "done" /\ call.result.status = "ok" /\ ~IsWordDocument(call.file))
        => /\ call.visited = [k \in 1..Len(call.pages) |-> k]
           /\ call.result.text =
                 TrimText(Join([k \in 1..Len(call.pages) |->
                                   Join(call.pages[k], Space)], BlankLine))

(***************************************************************************)
(* C23, as stated: PDF extraction visits pages in ascending order, joins   *)
(* the items of a page with single spaces and the pages with a blank line; *)
(* for the 2-page document with the items "Hello" and "World" the text is  *)
(* "Hello \n\nWorld " before trimming and "Hello \n\nWorld" after.         *)
(***************************************************************************)
C23_HelloSpaceBlankLineWorld ==
    /\ PagesJoinedInOrder
    /\ PdfExtracted(HelloWorldDocument)
          => /\ call.fullText = Hello \o Space \o BlankLine \o World \o Space
             /\ call.result.text = Hello \o Space \o BlankLine \o World

(***************************************************************************)
(* C23, amended: as above, but a page's text gets no space after its last  *)
(* item and every page, the last one too, is followed by a blank line: for *)
(* the 2-page document the text is "Hello\n\nWorld\n\n" before trimming    *)
(* and "Hello\n\nWorld" after.                                             *)
(***************************************************************************)
C23_HelloBlankLineWorld ==
    /\ PagesJoinedInOrder
    /\ PdfExtracted(HelloWorldDocument)
          => /\ call.fullText = Hello \o BlankLine \o World \o BlankLine
             /\ call.result.text = Hello \o BlankLine \o World

\* the 2-page document has been extracted
C23_Witness ==
    /\ PdfExtracted(HelloWorldDocument)
    /\ call.visited = <<1, 2>>
    /\ call.result.text = Hello \o BlankLine \o World

\* the text the decoder of the call's branch yields, before trimming
DecodedText ==
    IF IsWordDocument(call.file) THEN call.value
    ELSE Join([k \in 1..Len(call.pages) |-> Join(call.pages[k], Space)],
              BlankLine)

C25_CapChecksAgree ==
    [][\A c \in chats \ chats' :
          (/\ Len(messages') = Len(messages) + 1
           /\ messages'[Len(messages')].text # ApologyText)
            => /\ c.count + 1 = UserCount(messages')
               /\ (c.count + 1 >= MaxUserMessages) <=> isLimitReached'
               /\ (c.session \in timers') <=> isLimitReached']_vars

\* the third reply of the second session has arrived: both checks see 3
C25_Witness ==
    /\ session = 2
    /\ chats = {}
    /\ 2 \in timers
    /\ isLimitReached
    /\ LastMessage.sender = "bot"
    /\ LastMessage.text # ApologyText

\* the external calls outstanding: every suspended handler awaits exactly one
OutstandingCalls == Cardinality(ingests) + Cardinality(chats)

(***************************************************************************)
(* C26: no external calls run in parallel: whatever the user selects,      *)
(* submits, sends or navigates to, at most one external call (a backend or *)
(* relay fetch, or a model call) is outstanding at any time.  (That a      *)
(* strategy of the fallback chain starts only after the previous one has   *)
(* settled is the order of attempts of C12.)                               *)
(***************************************************************************)
C26_OneExternalCallAtATime == OutstandingCalls <= 1

\* a reply is outstanding while the user, back on the input page of the link
\* source, has typed an address: the submit button stays disabled
C26_Witness ==
    /\ OutstandingCalls = 1
    /\ chats # {}
    /\ step = "input"
    /\ knowledgeSource = "link"
    /\ ~Falsy(Trim(inputValue))
    /\ isProcessing

(***************************************************************************)
(* C27: a session is never written by work of another session: a reply, or *)
(* the message substituted for a failed one, for a message sent in one     *)
(* session is never appended to the list of a later session.  No turn      *)
(* outlives its session, and a turn settles in the session it was sent in. *)
(***************************************************************************)
C27_RepliesStayInTheirSession ==
    /\ [](\A c \in chats : c.session = session)
    /\ [][\A c \in chats \ chats' :
            /\ c.session = session'
            /\ messages' = Append(messages, messages'[Len(messages')])
            /\ messages'[Len(messages')].turn = c.turn
            /\ messages[Len(messages)] = Message("user", "user", c.turn)]_vars

\* the first turn of the second session has failed: its substituted message
\* follows its user message
C27_Witness ==
    /\ session = 2
    /\ apiKey
    /\ chats = {}
    /\ Len(messages) = 3
    /\ messages[2].sender = "user"
    /\ messages[3].text = ApologyText

(***************************************************************************)
(* C28: the knowledge base is immutable during a chat session: no chat     *)
(* turn, accepted or rejected, successful or failed, changes it (it        *)
(* changes only in the step that creates a session), and every responder   *)
(* call of a session is given the knowledge base of that session's         *)
(* ingestion.                                                              *)
(***************************************************************************)
C28_KnowledgeBaseImmutable ==
    /\ [](\A c \in chats : c.session = session /\ c.kb = knowledgeBase)
    /\ [][session' = session => knowledgeBase' = knowledgeBase]_vars
    /\ [][(calls' # calls \/ chats' # chats \/ rejected' # rejected)
            /\ session' = session => knowledgeBase' = knowledgeBase]_vars

\* the second session's responder call is outstanding with the knowledge base
\* that replaced the first session's
C28_Witness ==
    /\ session = 2
    /\ ~Falsy(knowledgeBase)
    /\ \E c \in chats : c.session = 2 /\ c.kb = knowledgeBase /\ c.turn = 2

(***************************************************************************)
(* C29: a relay attempt is judged successful if and only if the response   *)
(* is HTTP-ok, the body is longer than 100 characters and the body holds   *)
(* '<html', '<body' or '<!DOCTYPE'; after any other answer, a body of      *)
(* exactly 100 characters or one without an anchor included, the chain     *)
(* goes on with the next relay.                                            *)
(***************************************************************************)
C29_RelaySuccessCriterion ==
    \A k \in 1..Len(call.attempts) :
        LET a == call.attempts[k] IN
        a.strategy >= 1
            => /\ a.outcome = "ok"
                     <=> /\ a.kind = "ok"
                         /\ a.body.len > MinRelayLength
                         /\ a.body.anchors
               /\ (a.outcome # "ok" /\ a.strategy < NumRelays)
                     => \/ call.pc = "relay" /\ call.i = a.strategy + 1
                                             /\ k = Len(call.attempts)
                        \/ /\ k < Len(call.attempts)
                           /\ call.attempts[k + 1].strategy = a.strategy + 1
               /\ a.outcome = "ok" => call.html = a.body

\* relay 1 answered with 100 characters of markup, relay 2 with a longer body
\* without an anchor, and relay 3 was used
C29_Witness ==
    /\ Len(call.attempts) = NumRelays
    /\ call.attempts[1].kind = "ok"
    /\ call.attempts[1].body.len = MinRelayLength
    /\ call.attempts[1].body.anchors
    /\ call.attempts[1].outcome # "ok"
    /\ call.attempts[2].body.len > MinRelayLength
    /\ ~call.attempts[2].body.anchors
    /\ call.attempts[2].outcome # "ok"
    /\ call.attempts[3].outcome = "ok"

(***************************************************************************)
(* C30: without the scraping-backend credential the backend is never       *)
(* called and contributes no failure reason: the fetch starts with the     *)
(* relay chain and, if all relays fail, the reported reason comes from the *)
(* relays only.                                                            *)
(***************************************************************************)
C30_NoBackendWithoutCredential ==
    ~call.zyteKey
        => /\ call.pc # "backend"
           /\ \A k \in 1..Len(call.attempts) : call.attempts[k].strategy >= 1
           /\ call.lastError.by # 0
           /\ call.result.cause.by # 0
           /\ call.pc \notin {"idle", "relay"}
                 => (Len(call.attempts) >= 1 /\ call.attempts[1].strategy = 1)

\* without the credential all relays failed and the reason is relay 3's
C30_Witness ==
    /\ ~call.zyteKey
    /\ call.result.message = ErrAllFailed
    /\ call.result.cause = [by |-> NumRelays, reason |-> "http"]

(***************************************************************************)
(* C31: the markup sent to the model by the extraction fallback is the     *)
(* first min(length, 100,000) characters of the raw markup (a page of      *)
(* 200,000 characters with a ratio of 2% is sent cut to 100,000), and the  *)
(* model is called at most once per fetch: a failed call is not retried.   *)
(***************************************************************************)
C31_ModelMarkupCappedAndSentOnce ==
    /\ [](/\ call.requests <= 1
          /\ call.requests = 1
                => /\ call.html.len <= 100000 => call.sent = call.html.len
                   /\ call.html.len > 100000 => call.sent = 100000)
    /\ [][call.pc = "model" => call'.pc = "done" /\ call'.requests = 1]_vars

\* the 200,000-character page was sent cut to 100,000 characters, the call
\* failed and the fetch ended without a second call
C31_Witness ==
    /\ call.html.len = 200000
    /\ call.normalized = Str(0, 4000, 0)
    /\ call.sent = 100000
    /\ call.requests = 1
    /\ call.extracted.status = "failed"
    /\ call.pc = "done"

\* p is the text of the first Length(p) characters of s
IsPrefixOf(p, s) ==
    /\ p.lead <= s.lead
    /\ p.core > 0 => (p.lead = s.lead /\ p.core <= s.core)
    /\ p.trail > 0 => (p.lead = s.lead /\ p.core = s.core /\ p.trail <= s.trail)

(***************************************************************************)
(* C32: when the condenser invokes the model, the input sent is the first  *)
(* min(length, cap) characters of the content, where cap is 150,000 for a  *)
(* link source and 100,000 for every other source kind.                    *)
(***************************************************************************)
C32_CondenserInputCapped ==
    call.invoked
        => LET cap == IF call.sourceType = "link" THEN 150000 ELSE 100000
           IN /\ IsPrefixOf(call.sent, call.content)
              /\ Length(call.content) <= cap => Length(call.sent) = Length(call.content)
              /\ Length(call.content) > cap => Length(call.sent) = cap

\* 150,001 characters of a link are sent cut to 150,000
C32_Witness ==
    /\ call.invoked
    /\ call.sourceType = "link"
    /\ Length(call.content) = 150001
    /\ Length(call.sent) = 150000

(***************************************************************************)
(* C33: every responder call includes in its prompt exactly the first      *)
(* min(length, 20,000) characters of the session's knowledge base, for     *)
(* every knowledge-base size.                                              *)
(***************************************************************************)
C33_PromptHoldsFirst20000 ==
    call.requests > 0
        => /\ IsPrefixOf(call.kbContext, call.knowledgeBase)
           /\ Length(call.knowledgeBase) <= 20000
                 => call.kbContext = call.knowledgeBase
           /\ Length(call.knowledgeBase) > 20000
                 => Length(call.kbContext) = 20000

\* a knowledge base of 20,001 characters was sent cut to 20,000, and the
\* reply came back
C33_Witness ==
    /\ call.requests = 1
    /\ Length(call.knowledgeBase) = 20001
    /\ Length(call.kbContext) = 20000
    /\ call.result.status = "ok"

(***************************************************************************)
(* C34: the text normalizer never raises and returns the empty string for  *)
(* empty input; otherwise its result is the regex-path text when           *)
(* structural parsing errors, the structural text when that text has at    *)
(* least 50 characters, and when the structural text has fewer than 50     *)
(* characters the regex-path text if and only if it is strictly longer     *)
(* than the structural text.                                               *)
(***************************************************************************)
C34_NormalizerCases ==
    call.pc = "done"
        => LET structural == Str(0, call.html.structural, 0)
               regex == Str(0, call.html.regex, 0)
               failed == call.html.parseError \/ call.domThrows
               r == call.result
           IN /\ r.status = "ok"
              /\ call.html.len = 0 => r.text = EmptyStr
              /\ (call.html.len > 0 /\ ~call.blank)
                    => /\ failed => (r.via = "regex" /\ r.text = regex)
                       /\ (~failed /\ Length(structural) >= 50)
                             => (r.via = "structural" /\ r.text = structural)
                       /\ (~failed /\ Length(structural) < 50)
                             => /\ r.via = "regex"
                                     <=> Length(regex) > Length(structural)
                                /\ r.via = "regex" => r.text = regex
                                /\ r.via # "regex"
                                     => (r.via = "structural" /\ r.text = structural)
                       /\ ~call.domThrows => r.text = extractTextFromHTML(call.html)

\* 40 characters on both paths: the structural text is kept
C34_Witness ==
    /\ call.pc = "done"
    /\ ~call.html.parseError
    /\ ~call.domThrows
    /\ call.html.structural = 40
    /\ call.html.regex = 40
    /\ call.result.via = "structural"

(***************************************************************************)
(* C35: in every state of a chat session the message list is the bot's     *)
(* welcome message followed by strictly alternating user and bot messages, *)
(* with at most one trailing user message that has no reply yet; such an   *)
(* unanswered trailing user message exists exactly while a responder call  *)
(* is outstanding.                                                         *)
(***************************************************************************)
C35_MessagesAlternate ==
    session > 0
        => /\ Len(messages) >= 1
           /\ messages[1] = WelcomeMessage
           /\ \A i \in 2..Len(messages) :
                 messages[i].sender = (IF i % 2 = 0 THEN "user" ELSE "bot")
           /\ LastMessage.sender = "user" <=> chats # {}

\* the first turn is answered and the second one is outstanding
C35_Witness ==
    /\ session > 0
    /\ Len(messages) = 4
    /\ messages[3].text = "reply"
    /\ messages[4].sender = "user"
    /\ chats # {}

(***************************************************************************)
(* C36: the responder is invoked exactly once per accepted user message    *)
(* and therefore at most 3 times per session; a turn whose responder call  *)
(* failed still consumes one of the 3 turns: it is neither retried nor     *)
(* refunded.                                                               *)
(***************************************************************************)
C36_OneCallPerTurn ==
    /\ [](session > 0 => (calls = UserCount(messages) /\ calls <= 3))
    /\ [][UserCount(messages') > UserCount(messages)
            => (calls' = calls + 1 /\ UserCount(messages') = UserCount(messages) + 1)]_vars
    /\ [][ResponderFails
            => /\ calls' = IF ChatRejects THEN calls ELSE calls + 1
               /\ UserCount(messages') = calls'
               /\ chats' \subseteq chats]_vars

\* three turns are used up, one of them by a call that failed
C36_Witness ==
    /\ apiKey
    /\ calls = 3
    /\ UserCount(messages) = 3
    /\ isLimitReached
    /\ Len(messages) = 7
    /\ messages[3].text = ApologyText
    /\ messages[7].text = "reply"
    /\ chats = {}

(***************************************************************************)
(* C37: isProcessing is true exactly while an ingestion or a responder     *)
(* call is outstanding: it is set before the call starts, it is reset to   *)
(* false on every completion path, success or failure, of                  *)
(* handleSubmitKnowledge and handleSendMessage, and it is never left true  *)
(* with no operation pending.                                              *)
(***************************************************************************)
C37_ProcessingIffOutstanding ==
    /\ [](isProcessing <=> (ingests # {} \/ chats # {}))
    /\ [][(OutstandingCalls' < OutstandingCalls) => ~isProcessing']_vars
    /\ [][(OutstandingCalls' > OutstandingCalls) => isProcessing']_vars

\* a second ingestion is outstanding after a chat turn of the first session
\* failed: the flag was reset by the failure and set again
C37_Witness ==
    /\ isProcessing
    /\ ingests # {}
    /\ chats = {}
    /\ session = 1
    /\ Len(messages) = 3
    /\ messages[3].text = ApologyText

(***************************************************************************)
(* C38: blank submissions are no-ops: handleSendMessage with empty or      *)
(* whitespace-only text, and handleSubmitKnowledge with blank input and no *)
(* selected file, leave step, messages, knowledge base, error and          *)
(* isProcessing unchanged and make no external call.                       *)
(***************************************************************************)
C38_BlankSubmissionsAreNoOps ==
    [][(blanks' # blanks \/ SubmitBlankChat \/ SubmitBlankKnowledge)
          => /\ UNCHANGED <<step, messages, knowledgeBase, error, isProcessing>>
             /\ UNCHANGED <<ingests, chats, calls, timers>>]_vars

\* a blank submission was made and the first session goes on untouched: its
\* first turn is outstanding
C38_Witness ==
    /\ blanks
    /\ step = "chat"
    /\ session = 1
    /\ Len(messages) = 2
    /\ chats # {}
    /\ error = Null

(***************************************************************************)
(* C39: processPDF dispatches a file to the word-processor decoder if and  *)
(* only if its extension is .doc/.docx or its declared type is a Word MIME *)
(* type, and to the PDF decoder otherwise; exactly one decoder is invoked  *)
(* per call.                                                               *)
(***************************************************************************)
C39_OneDecoderByExtensionOrType ==
    /\ [](call.pc # "idle"
            => LET word ==
                     \/ call.file.ext = ".doc"
                     \/ call.file.ext = ".docx"
                     \/ call.file.type = "application/msword"
                     \/ call.file.type =
                          "application/vnd.openxmlformats-officedocument.wordprocessingml.document"
               IN /\ Len(call.invoked) = 1
                  /\ call.invoked[1] = "word" <=> word
                  /\ call.invoked[1] = "pdf" <=> ~word
                  /\ call.pc \in {"load", "page"} => call.invoked[1] = "pdf"
                  /\ call.pc = "word" => call.invoked[1] = "word")
    /\ [][call.pc # "idle" => call'.invoked = call.invoked]_vars

\* a file named .pdf and declared as a Word document went to the Word
\* decoder, which returned its text
C39_Witness ==
    /\ call.pc = "done"
    /\ call.file = [ext |-> ".pdf", type |-> "application/msword"]
    /\ call.invoked = <<"word">>
    /\ call.result.status = "ok"

====
